---- MODULE Spec2Model ----
(***************************************************************************)
(* github-gantt (index.js): the issue feed of one repository is mirrored   *)
(* into a Realm store of Task records by processIssues, which is driven    *)
(* page by page from the promise callbacks of GET /refreshData.            *)
(*                                                                         *)
(* Node runs every callback to completion, so one call of processIssues   *)
(* (all upserts of one page, and the reconciliation when the page is the   *)
(* last) is one atomic step; runs interleave only while a page fetch is    *)
(* pending.                                                                *)
(*                                                                         *)
(* Optional (nullable) values are encoded as sequences: None is <<>> and   *)
(* Some(v) is <<v>>.  A string that the code splits, trims or compares is  *)
(* a sequence of tokens; a body is a sequence of lines.                    *)
(***************************************************************************)
EXTENDS Integers, Sequences, FiniteSets, TLC

\* ---------------------------------------------------------------- bounds
MaxRuns == 2
MaxPages == 2
MaxLines == 2

Runs == 1..MaxRuns

\* ---------------------------------------------------------------- values
None == <<>>
Some(v) == <<v>>

Range(s) == {s[i] : i \in 1..Len(s)}

\* config.START_DATE_STRING etc.: four configured literal prefixes
START_DATE_STRING == "start:"
DUE_DATE_STRING == "due:"
LABEL_STRING == "label:"
PROGRESS_STRING == "progress:"

\* ------------------------------------------------------------- utilities
isString(v) == v # None

isArray(v) == v # None

\* new Date(text): the day number of a well-formed date text, None for
\* Invalid Date
DateValue == [d \in {"2017-01-05", "2017-01-07", "2017-01-09"} |->
                CASE d = "2017-01-05" -> 5
                  [] d = "2017-01-07" -> 7
                  [] d = "2017-01-09" -> 9]

NewDate(text) ==
  IF Len(text) = 1 /\ text[1] \in DOMAIN DateValue
  THEN Some(DateValue[text[1]])
  ELSE None

isDate(date) == date # None

FloatValue == [f \in {"0", "0.5", "1"} |->
                CASE f = "0" -> 0
                  [] f = "0.5" -> 5
                  [] f = "1" -> 10]

\* progress is kept in tenths
sanitizeFloat(text) ==
  IF Len(text) = 1 /\ text[1] \in DOMAIN FloatValue
  THEN Some(FloatValue[text[1]])
  ELSE None

sanitizeStringNonNull(v) == IF v = None THEN <<>> ELSE v[1]

\* ------------------------------------------------------- string helpers
\* !line.indexOf(prefix): the prefix occurs at index 0
StartsWith(line, prefix) == Len(line) >= 1 /\ line[1] = prefix

RECURSIVE RemoveFirst(_, _)
\* line.replace(prefix, ''): the first occurrence is removed
RemoveFirst(line, prefix) ==
  IF line = <<>> THEN <<>>
  ELSE IF Head(line) = prefix THEN Tail(line)
  ELSE <<Head(line)>> \o RemoveFirst(Tail(line), prefix)

RECURSIVE TrimLeft(_)
TrimLeft(text) ==
  IF text # <<>> /\ Head(text) = " " THEN TrimLeft(Tail(text)) ELSE text

RECURSIVE TrimRight(_)
TrimRight(text) ==
  IF text # <<>> /\ text[Len(text)] = " "
  THEN TrimRight(SubSeq(text, 1, Len(text) - 1))
  ELSE text

Trim(text) == TrimRight(TrimLeft(text))

UpperCase == [c \in {"fbca04", "FF0000"} |->
                CASE c = "fbca04" -> "FBCA04"
                  [] c = "FF0000" -> "FF0000"]

toUpperCase(c) == UpperCase[c]

\* ------------------------------------------------------ keyword scanning
RECURSIVE MatchLabels_anyName(_, _, _)
\* a loop over the label entries without the test of the name
MatchLabels_anyName(labels, labelString, acc) ==
  IF labels = <<>> THEN acc
  ELSE LET aLabel == Head(labels)
           next == [label |-> Some(aLabel.name),
                    color |-> IF isString(aLabel.color)
                              THEN Some(<<"#", toUpperCase(aLabel.color[1])>>)
                              ELSE acc.color]
       IN MatchLabels_anyName(Tail(labels), labelString, next)

RECURSIVE MatchLabels(_, _, _)
\* for (index in issue.labels): every label entry whose name equals the
\* label text sets label, and sets color when the entry has one
MatchLabels(labels, labelString, acc) ==
  IF labels = <<>> THEN acc
  ELSE LET aLabel == Head(labels)
           next == IF aLabel.name = labelString
                   THEN [label |-> Some(aLabel.name),
                         color |-> IF isString(aLabel.color)
                                   THEN Some(<<"#", toUpperCase(aLabel.color[1])>>)
                                   ELSE acc.color]
                   ELSE acc
       IN MatchLabels(Tail(labels), labelString, next)

\* a pass that overwrites the working dates whatever the line yields
ScanLine_overwrite(line, issue, m) ==
  LET sd == NewDate(RemoveFirst(line, START_DATE_STRING))
      m1 == IF StartsWith(line, START_DATE_STRING)
            THEN [m EXCEPT !.startDate = IF isDate(sd) THEN sd[1]
                                         ELSE issue.createdAt]
            ELSE m
      dd == NewDate(RemoveFirst(line, DUE_DATE_STRING))
      m2 == IF StartsWith(line, DUE_DATE_STRING)
            THEN [m1 EXCEPT !.dueDate = dd] ELSE m1
      lc == MatchLabels(issue.labels, Trim(RemoveFirst(line, LABEL_STRING)),
                        [label |-> m2.label, color |-> m2.color])
      m3 == IF StartsWith(line, LABEL_STRING)
            THEN [m2 EXCEPT !.label = lc.label, !.color = lc.color] ELSE m2
      m4 == IF StartsWith(line, PROGRESS_STRING)
            THEN [m3 EXCEPT !.progress =
                       sanitizeFloat(RemoveFirst(line, PROGRESS_STRING))]
            ELSE m3
  IN m4

\* one pass of the body of the for (j ...) loop over one line
ScanLine(line, issue, m) ==
  LET sd == NewDate(RemoveFirst(line, START_DATE_STRING))
      m1 == IF StartsWith(line, START_DATE_STRING) /\ isDate(sd)
            THEN [m EXCEPT !.startDate = sd[1]] ELSE m
      dd == NewDate(RemoveFirst(line, DUE_DATE_STRING))
      m2 == IF StartsWith(line, DUE_DATE_STRING) /\ isDate(dd)
            THEN [m1 EXCEPT !.dueDate = dd] ELSE m1
      lc == MatchLabels(issue.labels, Trim(RemoveFirst(line, LABEL_STRING)),
                        [label |-> m2.label, color |-> m2.color])
      m3 == IF StartsWith(line, LABEL_STRING)
            THEN [m2 EXCEPT !.label = lc.label, !.color = lc.color] ELSE m2
      m4 == IF StartsWith(line, PROGRESS_STRING)
            THEN [m3 EXCEPT !.progress =
                       sanitizeFloat(RemoveFirst(line, PROGRESS_STRING))]
            ELSE m3
  IN m4

RECURSIVE ScanLines(_, _, _)
ScanLines(lines, issue, m) ==
  IF lines = <<>> THEN m
  ELSE ScanLines(Tail(lines), issue, ScanLine(Head(lines), issue, m))

\* the working values of one issue after the keyword scan
Keywords(issue) ==
  LET m0 == [startDate |-> issue.createdAt, dueDate |-> None,
             label |-> None, color |-> None, progress |-> None]
  IN IF issue.body # None THEN ScanLines(issue.body[1], issue, m0) ELSE m0

\* the object handed to realm.create for one issue
TaskOf(issue) ==
  LET m == Keywords(issue)
  IN [text |-> sanitizeStringNonNull(issue.title),
      start_date |-> m.startDate,
      duration |-> 1,
      id |-> issue.id,
      body |-> sanitizeStringNonNull(issue.body),
      url |-> sanitizeStringNonNull(issue.url),
      html_url |-> sanitizeStringNonNull(issue.htmlUrl),
      number |-> issue.number,
      state |-> issue.state,
      isDeleted |-> FALSE,
      end_date |-> m.dueDate,
      label |-> m.label,
      color |-> m.color,
      progress |-> m.progress]

\* ------------------------------------------------------------- the store
\* The Realm table of Task objects is the sequence of its rows.
Ids(st) == {st[i].id : i \in 1..Len(st)}

\* realm.objectForPrimaryKey('Task', id)
objectForPrimaryKey(st, id) == CHOOSE i \in 1..Len(st) : st[i].id = id

\* create without the update flag honoured: a row is always added
create_insert(st, task) == Append(st, task)

\* create that looks the existing row up by its title instead of its key
create_byText(st, task) ==
  IF \E i \in 1..Len(st) : st[i].text = task.text
  THEN [st EXCEPT ![CHOOSE i \in 1..Len(st) : st[i].text = task.text] = task]
  ELSE Append(st, task)

\* realm.create('Task', task, true): the row with the primary key of task is
\* overwritten when there is one, a new row is added otherwise
create(st, task) ==
  IF task.id \in Ids(st)
  THEN [st EXCEPT ![objectForPrimaryKey(st, task.id)] = task]
  ELSE Append(st, task)

\* oldIds = realm.objects('Task').map(task => task.id)
oldIds(st) == [i \in 1..Len(st) |-> st[i].id]

\* deletedIds = oldIds.filter(el => idArray.indexOf(el) < 0)
deletedIds(st, idArray) == SelectSeq(oldIds(st), LAMBDA el : el \notin Range(idArray))

\* a prune that deletes the rows instead of flagging them
MarkDeleted_remove(st, ids) == SelectSeq(st, LAMBDA t : t.id \notin Range(ids))

RECURSIVE MarkDeleted(_, _)
\* realm.write(() => { for (index in deletedIds) task.isDeleted = true })
MarkDeleted(st, ids) ==
  IF ids = <<>> THEN st
  ELSE MarkDeleted([st EXCEPT ![objectForPrimaryKey(st, Head(ids))].isDeleted = TRUE],
                   Tail(ids))

\* ------------------------------------------------------ getTaskChartData
\* a stable sort of s by the integer keys k (k[i] is the key of s[i])
StableSort(s, k) ==
  LET rank(i) == Cardinality({m \in 1..Len(s) :
                                k[m] < k[i] \/ (k[m] = k[i] /\ m < i)}) + 1
  IN [j \in 1..Len(s) |-> s[CHOOSE i \in 1..Len(s) : rank(i) = j]]

\* the order of the label values: null first, then the names in order
LabelRank(label) ==
  CASE label = None -> 0
    [] label = Some(<<"bug">>) -> 1
    [] label = Some(<<"idea">>) -> 2

\* Results.sorted('start_date', true)
sortedByStartDateDesc(s) == StableSort(s, [i \in 1..Len(s) |-> 0 - s[i].start_date])

\* Results.sorted('label')
sortedByLabel(s) == StableSort(s, [i \in 1..Len(s) |-> LabelRank(s[i].label)])

\* a filter that leaves the flagged rows in
filtered_withDeleted(st) ==
  SelectSeq(st, LAMBDA t : t.state = "open" /\ t.end_date # None)

\* .filtered('isDeleted = false AND state = "open" AND end_date != null')
filtered(st) ==
  SelectSeq(st, LAMBDA t : ~t.isDeleted /\ t.state = "open" /\ t.end_date # None)

\* dateFormat(date, "mm-dd-yyyy")
DateText == [d \in {1, 2, 3, 5, 7, 9} |->
               CASE d = 1 -> "01-01-2017"
                 [] d = 2 -> "01-02-2017"
                 [] d = 3 -> "01-03-2017"
                 [] d = 5 -> "01-05-2017"
                 [] d = 7 -> "01-07-2017"
                 [] d = 9 -> "01-09-2017"]

dateFormat(date) == DateText[date]

formattedTask(task) ==
  [id |-> task.id,
   text |-> task.text,
   start_date |-> dateFormat(task.start_date),
   duration |-> task.duration,
   end_date |-> dateFormat(task.end_date[1]),
   url |-> task.url,
   progress |-> task.progress,
   color |-> task.color]

\* The Results of .sorted('start_date', true).sorted('label').  The second
\* sorted() is called on Results that are sorted already, and the source does
\* not name the Realm version: realm-js 2.x sorts the sorted Results, so that
\* rows of one label keep their start_date order (composes), realm-js 1.x
\* builds the new Results from the query and the new descriptor alone, so
\* that rows of one label are in table order.
chartTasks(st, composes) ==
  IF composes THEN sortedByLabel(sortedByStartDateDesc(filtered(st)))
  ELSE sortedByLabel(filtered(st))

\* getTaskChartData(): taskData.data
getTaskChartData(st, composes) ==
  LET tasks == chartTasks(st, composes)
  IN [i \in 1..Len(tasks) |-> formattedTask(tasks[i])]

\* ------------------------------------------------------- processIssues
RECURSIVE UpsertItems(_, _, _, _, _)
\* for (index in issues.items): item k is written in a transaction of its
\* own and its id is pushed on idArray; the write of item failAt throws
\* (failAt = 0: no write throws), its transaction is cancelled and the
\* loop is left
UpsertItems(items, k, failAt, st, idArray) ==
  IF k > Len(items) THEN [store |-> st, idArray |-> idArray, threw |-> FALSE]
  ELSE IF k = failAt THEN [store |-> st, idArray |-> idArray, threw |-> TRUE]
  ELSE UpsertItems(items, k + 1, failAt,
                   create(st, TaskOf(items[k])), Append(idArray, items[k].id))

\* processIssues that does not pass idArray on to the call for the next page
processIssues_noThread(issues, idArrayArg, st, failAt) ==
  LET loop == UpsertItems(issues.items, 1, failAt, st, <<>>)
      deleted == deletedIds(loop.store, loop.idArray)
  IN IF loop.threw
     THEN [store |-> loop.store, idArray |-> loop.idArray,
           outcome |-> "threw", pruned |-> <<>>, prunes |-> 0,
           completion |-> <<>>]
     ELSE IF isString(issues.nextPageUrl)
     THEN [store |-> loop.store, idArray |-> loop.idArray,
           outcome |-> "fetch", pruned |-> <<>>, prunes |-> 0,
           completion |-> <<>>]
     ELSE [store |-> MarkDeleted(loop.store, deleted), idArray |-> loop.idArray,
           outcome |-> "completion", pruned |-> deleted, prunes |-> 1,
           completion |-> <<MarkDeleted(loop.store, deleted)>>]

\* processIssues whose prune is not in the else branch: it runs on every page
processIssues_pruneEachPage(issues, idArrayArg, st, failAt) ==
  LET idArray0 == IF ~isArray(idArrayArg) THEN <<>> ELSE idArrayArg[1]
      loop == UpsertItems(issues.items, 1, failAt, st, idArray0)
      deleted == deletedIds(loop.store, loop.idArray)
  IN IF loop.threw
     THEN [store |-> loop.store, idArray |-> loop.idArray,
           outcome |-> "threw", pruned |-> <<>>, prunes |-> 0,
           completion |-> <<>>]
     ELSE [store |-> MarkDeleted(loop.store, deleted), idArray |-> loop.idArray,
           outcome |-> IF isString(issues.nextPageUrl) THEN "fetch"
                       ELSE "completion",
           pruned |-> deleted, prunes |-> 1,
           completion |-> IF isString(issues.nextPageUrl) THEN <<>>
                          ELSE <<MarkDeleted(loop.store, deleted)>>]

\* processIssues that calls completion before the prune batch
processIssues_completeFirst(issues, idArrayArg, st, failAt) ==
  LET idArray0 == IF ~isArray(idArrayArg) THEN <<>> ELSE idArrayArg[1]
      loop == UpsertItems(issues.items, 1, failAt, st, idArray0)
      deleted == deletedIds(loop.store, loop.idArray)
  IN IF loop.threw
     THEN [store |-> loop.store, idArray |-> loop.idArray,
           outcome |-> "threw", pruned |-> <<>>, prunes |-> 0,
           completion |-> <<>>]
     ELSE IF isString(issues.nextPageUrl)
     THEN [store |-> loop.store, idArray |-> loop.idArray,
           outcome |-> "fetch", pruned |-> <<>>, prunes |-> 0,
           completion |-> <<>>]
     ELSE [store |-> MarkDeleted(loop.store, deleted), idArray |-> loop.idArray,
           outcome |-> "completion", pruned |-> deleted, prunes |-> 1,
           completion |-> <<loop.store>>]

\* one call processIssues(issues, completion, idArray) on store st; the
\* result names the stores on which completion() was called, in order
processIssues(issues, idArrayArg, st, failAt) ==
  LET idArray0 == IF ~isArray(idArrayArg) THEN <<>> ELSE idArrayArg[1]
      loop == UpsertItems(issues.items, 1, failAt, st, idArray0)
      deleted == deletedIds(loop.store, loop.idArray)
  IN IF loop.threw
     THEN [store |-> loop.store, idArray |-> loop.idArray,
           outcome |-> "threw", pruned |-> <<>>, prunes |-> 0,
           completion |-> <<>>]
     ELSE IF isString(issues.nextPageUrl)
     THEN [store |-> loop.store, idArray |-> loop.idArray,
           outcome |-> "fetch", pruned |-> <<>>, prunes |-> 0,
           completion |-> <<>>]
     ELSE [store |-> MarkDeleted(loop.store, deleted), idArray |-> loop.idArray,
           outcome |-> "completion", pruned |-> deleted, prunes |-> 1,
           completion |-> <<MarkDeleted(loop.store, deleted)>>]

\* ------------------------------------------------------------- the feed
Labels1 == <<[name |-> <<"bug">>, color |-> Some("fbca04")]>>
Labels2 == <<[name |-> <<"idea">>, color |-> None]>>

Issue(id, title, state, createdAt, body, labels) ==
  [id |-> id, title |-> Some(title), body |-> body, url |-> Some(<<"api", id>>),
   htmlUrl |-> Some(<<"html", id>>), number |-> 100 + id, state |-> state,
   createdAt |-> createdAt, labels |-> labels]

Issue1a == Issue(1, "a", "open", 1, None, <<>>)
Issue1b == Issue(1, "b", "open", 1,
                 Some(<< <<DUE_DATE_STRING, "2017-01-07">>,
                         <<LABEL_STRING, " ", "bug">> >>), Labels1)
Issue2 == Issue(2, "c", "closed", 2,
                Some(<< <<START_DATE_STRING, "2017-01-05">>,
                        <<DUE_DATE_STRING, "soon">>,
                        <<LABEL_STRING, "idea">> >>), Labels2)
Issue3 == Issue(3, "d", "open", 3,
                Some(<< <<DUE_DATE_STRING, "2017-01-09">>,
                        <<PROGRESS_STRING, "0.5">> >>), <<>>)

\* the item lists a page of the feed may carry
PageItems == << <<Issue1a, Issue2>>, <<Issue1b>> >>

\* the stores a process may open: tasks.realm as earlier syncs left it
\* (issue 3 is no longer in the feed)
Tombstone(t) == [t EXCEPT !.isDeleted = TRUE]

InitStores ==
  {<<>>,
   <<TaskOf(Issue1a), Tombstone(TaskOf(Issue2)), TaskOf(Issue3)>>}

\* a feed is the sequence of the pages a run was given, each page the
\* index of its item list and whether it had a next page
ItemsOf(page) == PageItems[page.p]

PageIds(page) == {ItemsOf(page)[k].id : k \in 1..Len(ItemsOf(page))}

FeedIds(feed) == UNION {PageIds(feed[i]) : i \in 1..Len(feed)}

\* ------------------------------------------------------------- the state
VARIABLES store, pc, idArray, pages, response, sends, prunes, listening,
          overlapped, prevFeed, undeleted, lastDone, laterIds, last

vars == <<store, pc, idArray, pages, response, sends, prunes, listening,
          overlapped, prevFeed, undeleted, lastDone, laterIds, last>>

\* store       the Task table
\* pc[r]       where /refreshData request r is: "idle" (not yet received),
\*             "fetching" (a page fetch is pending), "completion" (completion
\*             was called), "rejected" (a page fetch was rejected), "threw"
\*             (a store write threw inside the promise callback)
\* idArray[r]  the idArray argument the pending callback of r will pass on
\* response[r] what was sent on res of request r
\* sends[r]    how many times res.send was called for request r
\* prunes[r]   how many times r ran the prune batch
\* listening   the process is up and app.listen serves requests
\* The rest records the history of the runs in flight, and is dropped when
\* a run ends:
\* pages[r]    the pages r has been given so far
\* overlapped[r] another run was in flight while r was
\* prevFeed[r] the feed and the resulting store of the run that completed
\*             right before r started, when the store is still as it left it
\* undeleted[r] the ids whose row had isDeleted set when r upserted it
\* lastDone    the feed and the resulting store of the last run that
\*             completed with no other run in flight
\* laterIds[r] the ids of the feeds of the runs started after r that have
\*             completed while r is in flight
\* last        the step taken last

InFlight == {r \in Runs : pc[r] = "fetching"}

NoStep ==
  [kind |-> "none", run |-> 0, outcome |-> "none", feed |-> <<>>,
   idArray |-> <<>>, overlapped |-> FALSE, pruned |-> <<>>, undeleted |-> {},
   prevFeed |-> None, failAt |-> 0, sent |-> <<>>, query |-> None,
   items |-> <<>>, laterIds |-> {}]

Init ==
  /\ store \in InitStores
  /\ pc = [r \in Runs |-> "idle"]
  /\ idArray = [r \in Runs |-> None]
  /\ pages = [r \in Runs |-> <<>>]
  /\ response = [r \in Runs |-> "none"]
  /\ sends = [r \in Runs |-> 0]
  /\ prunes = [r \in Runs |-> 0]
  /\ listening = TRUE
  /\ overlapped = [r \in Runs |-> FALSE]
  /\ prevFeed = [r \in Runs |-> None]
  /\ undeleted = [r \in Runs |-> {}]
  /\ lastDone = None
  /\ laterIds = [r \in Runs |-> {}]
  /\ last = NoStep

\* the history of run r is dropped
Ended(r) ==
  /\ idArray' = [idArray EXCEPT ![r] = None]
  /\ pages' = [pages EXCEPT ![r] = <<>>]
  /\ overlapped' = [overlapped EXCEPT ![r] = FALSE]
  /\ prevFeed' = [prevFeed EXCEPT ![r] = None]
  /\ undeleted' = [undeleted EXCEPT ![r] = {}]

\* app.get('/refreshData'): the fetch of the first page is started
RefreshData(r) ==
  /\ listening
  /\ pc[r] = "idle"
  /\ \A q \in Runs : q < r => pc[q] # "idle"
  /\ pc' = [pc EXCEPT ![r] = "fetching"]
  /\ overlapped' = [q \in Runs |->
                      IF InFlight # {} /\ (q = r \/ q \in InFlight)
                      THEN TRUE ELSE overlapped[q]]
  /\ prevFeed' = [prevFeed EXCEPT ![r] =
                    IF lastDone # None /\ lastDone[1].store = store
                    THEN lastDone ELSE None]
  /\ last' = [NoStep EXCEPT !.kind = "refresh", !.run = r]
  /\ UNCHANGED <<store, idArray, pages, response, sends, prunes, listening,
                 undeleted, lastDone, laterIds>>

\* the ids of the rows of st that have isDeleted set
Tombstoned(st) == {st[i].id : i \in {j \in 1..Len(st) : st[j].isDeleted}}

\* the issues object of a fetched page
Page(p, more) ==
  [items |-> PageItems[p], nextPageUrl |-> IF more THEN Some("next") ELSE None]

\* the ids of the items of page p written before the write of item failAt
Written(p, failAt) ==
  {PageItems[p][k].id :
     k \in 1..(IF failAt = 0 THEN Len(PageItems[p]) ELSE failAt - 1)}

\* a pending page fetch of r is fulfilled: the .then callback calls
\* processIssues on the page; the write of item failAt throws
FetchResolve(r) ==
  /\ pc[r] = "fetching"
  /\ \E p \in DOMAIN PageItems, more \in BOOLEAN :
     \E failAt \in 0..Len(PageItems[p]) :
       /\ more => Len(pages[r]) + 1 < MaxPages
       /\ \E res \in {processIssues(Page(p, more), idArray[r], store, failAt)},
             feed \in {Append(pages[r], [p |-> p, more |-> more])},
             undel \in {undeleted[r] \cup (Written(p, failAt) \cap Tombstoned(store))},
             composes \in BOOLEAN :
             /\ store' = res.store
             /\ prunes' = [prunes EXCEPT ![r] = @ + res.prunes]
             /\ pc' = [pc EXCEPT ![r] =
                         IF res.outcome = "fetch" THEN "fetching" ELSE res.outcome]
             /\ response' = [response EXCEPT ![r] =
                         IF res.completion # <<>> THEN "chart" ELSE @]
             /\ sends' = [sends EXCEPT ![r] = @ + Len(res.completion)]
             /\ lastDone' = IF res.outcome = "completion" /\ ~overlapped[r]
                            THEN Some([feed |-> feed, store |-> res.store])
                            ELSE lastDone
             /\ laterIds' =
                  IF res.outcome = "fetch" THEN laterIds
                  ELSE [q \in Runs |->
                          IF q = r THEN {}
                          ELSE IF res.outcome = "completion" /\ q < r
                                  /\ pc[q] = "fetching"
                               THEN laterIds[q] \cup FeedIds(feed)
                               ELSE laterIds[q]]
             /\ last' = [kind |-> "resolve", run |-> r, outcome |-> res.outcome,
                         feed |-> feed, idArray |-> res.idArray,
                         overlapped |-> overlapped[r], pruned |-> res.pruned,
                         undeleted |-> undel, prevFeed |-> prevFeed[r],
                         failAt |-> failAt, query |-> None, items |-> <<>>,
                         laterIds |-> laterIds[r],
                         sent |-> [i \in 1..Len(res.completion) |->
                                     getTaskChartData(res.completion[i], composes)]]
             /\ IF res.outcome = "fetch"
                THEN /\ idArray' = [idArray EXCEPT ![r] = Some(res.idArray)]
                     /\ pages' = [pages EXCEPT ![r] = feed]
                     /\ undeleted' = [undeleted EXCEPT ![r] = undel]
                     /\ UNCHANGED <<overlapped, prevFeed>>
                ELSE Ended(r)
  /\ UNCHANGED listening

\* a rejection handler that finishes the run as if the feed had ended
FetchReject_finish(r) ==
  /\ pc[r] = "fetching"
  /\ pc' = [pc EXCEPT ![r] = "rejected"]
  /\ store' = processIssues([items |-> <<>>, nextPageUrl |-> None],
                             idArray[r], store, 0).store
  /\ prunes' = [prunes EXCEPT ![r] = @ + 1]
  /\ last' = [NoStep EXCEPT !.kind = "reject", !.run = r, !.outcome = "rejected",
                            !.feed = pages[r], !.overlapped = overlapped[r],
                            !.undeleted = undeleted[r], !.prevFeed = prevFeed[r],
                            !.idArray = sanitizeStringNonNull(idArray[r])]
  /\ Ended(r)
  /\ laterIds' = [laterIds EXCEPT ![r] = {}]
  /\ UNCHANGED <<response, sends, listening, lastDone>>

\* a pending page fetch of r is rejected: no rejection handler is attached
FetchReject(r) ==
  /\ pc[r] = "fetching"
  /\ pc' = [pc EXCEPT ![r] = "rejected"]
  /\ last' = [NoStep EXCEPT !.kind = "reject", !.run = r, !.outcome = "rejected",
                            !.feed = pages[r], !.overlapped = overlapped[r],
                            !.undeleted = undeleted[r], !.prevFeed = prevFeed[r],
                            !.idArray = sanitizeStringNonNull(idArray[r])]
  /\ Ended(r)
  /\ laterIds' = [laterIds EXCEPT ![r] = {}]
  /\ UNCHANGED <<store, response, sends, prunes, listening, lastDone>>

\* a /data that starts a sync before it answers
GetData_refresh ==
  /\ listening
  /\ \E composes \in BOOLEAN :
       last' = [NoStep EXCEPT !.kind = "data",
                              !.sent = <<getTaskChartData(store, composes)>>]
  /\ \E r \in Runs :
       /\ pc[r] = "idle"
       /\ pc' = [pc EXCEPT ![r] = "fetching"]
  /\ UNCHANGED <<store, idArray, pages, response, sends, prunes, listening,
                 overlapped, prevFeed, undeleted, lastDone, laterIds>>

\* app.get('/data'): the chart data of the store is sent
GetData ==
  /\ listening
  /\ \E composes \in BOOLEAN :
       last' = [NoStep EXCEPT !.kind = "data",
                              !.sent = <<getTaskChartData(store, composes)>>]
  /\ UNCHANGED <<store, pc, idArray, pages, response, sends, prunes, listening,
                 overlapped, prevFeed, undeleted, lastDone, laterIds>>

\* parseInt(req.query.id): None is NaN
IntValue == [q \in {"1", "2", "3", "4"} |->
               CASE q = "1" -> 1 [] q = "2" -> 2 [] q = "3" -> 3 [] q = "4" -> 4]

parseInt(q) == IF q \in DOMAIN IntValue THEN Some(IntValue[q]) ELSE None

\* the id values a /getIssueURL request may carry
Queries == {"1", "2", "3", "4", "abc"}

\* a /getIssueURL whose TypeError is not caught and ends the process
GetIssueURL_crash(q) ==
  /\ listening
  /\ \E taskId \in {parseInt(q)} :
       IF taskId # None /\ taskId[1] \in Ids(store)
       THEN /\ last' = [NoStep EXCEPT
                          !.kind = "url", !.query = Some(q), !.outcome = "sent",
                          !.sent = <<store[objectForPrimaryKey(store, taskId[1])].html_url>>]
            /\ UNCHANGED listening
       ELSE /\ last' = [NoStep EXCEPT !.kind = "url", !.query = Some(q)]
            /\ listening' = FALSE
  /\ UNCHANGED <<store, pc, idArray, pages, response, sends, prunes,
                 overlapped, prevFeed, undeleted, lastDone, laterIds>>

\* app.get('/getIssueURL'): html_url of the task is sent; when there is no
\* task of the id, task.html_url throws a TypeError inside the route
\* handler, which the express router catches and answers with its error
\* response
GetIssueURL(q) ==
  /\ listening
  /\ \E taskId \in {parseInt(q)} :
       IF taskId # None /\ taskId[1] \in Ids(store)
       THEN last' = [NoStep EXCEPT
                       !.kind = "url", !.query = Some(q), !.outcome = "sent",
                       !.sent = <<store[objectForPrimaryKey(store, taskId[1])].html_url>>]
       ELSE last' = [NoStep EXCEPT
                       !.kind = "url", !.query = Some(q), !.outcome = "error"]
  /\ UNCHANGED <<store, pc, idArray, pages, response, sends, prunes, listening,
                 overlapped, prevFeed, undeleted, lastDone, laterIds>>

Next ==
  \/ \E r \in Runs : RefreshData(r)
  \/ \E r \in Runs : FetchResolve(r)
  \/ \E r \in Runs : FetchReject(r)
  \/ GetData

Spec == Init /\ [][Next]_vars

\* ----------------------------------------------------------- the read path
\* The read routes on the stores that syncs leave.  A row is the task of an
\* issue, as TaskOf makes it, flagged or not.
ChartIssue(id, state, start, due, labelName) ==
  Issue(id, "t", state, id,
        Some(<< <<START_DATE_STRING, start>>, <<DUE_DATE_STRING, due>>,
                <<LABEL_STRING, labelName>> >>),
        <<[name |-> <<"bug">>, color |-> Some("fbca04")],
          [name |-> <<"idea">>, color |-> Some("FF0000")]>>)

\* the rows that differ in what the chart filter tests
FilterRows(id) ==
  {IF deleted THEN Tombstone(t) ELSE t :
     deleted \in BOOLEAN,
     t \in {TaskOf(ChartIssue(id, state, "2017-01-07", due, "bug")) :
              state \in {"open", "closed"}, due \in {"2017-01-09", "never"}}}

\* the rows that differ in what the chart is sorted by
OrderRows(id) ==
  {TaskOf(ChartIssue(id, "open", start, "2017-01-09", labelName)) :
     start \in {"2017-01-05", "2017-01-09"}, labelName \in {"bug", "idea", "none"}}

ReadStores ==
  {<<r1, r2, r3>> : r1 \in FilterRows(1), r2 \in OrderRows(2), r3 \in OrderRows(3)}

ReadInit ==
  /\ store \in ReadStores
  /\ pc = [r \in Runs |-> "idle"]
  /\ idArray = [r \in Runs |-> None]
  /\ pages = [r \in Runs |-> <<>>]
  /\ response = [r \in Runs |-> "none"]
  /\ sends = [r \in Runs |-> 0]
  /\ prunes = [r \in Runs |-> 0]
  /\ listening = TRUE
  /\ overlapped = [r \in Runs |-> FALSE]
  /\ prevFeed = [r \in Runs |-> None]
  /\ undeleted = [r \in Runs |-> {}]
  /\ lastDone = None
  /\ laterIds = [r \in Runs |-> {}]
  /\ last = NoStep

ReadNext ==
  \/ GetData
  \/ \E q \in Queries : GetIssueURL(q)

ReadSpec == ReadInit /\ [][ReadNext]_vars

\* ------------------------------------------------------------ properties
Row(id) == store[objectForPrimaryKey(store, id)]

LastPage(feed) == feed[Len(feed)]

RECURSIVE FeedIdSeq(_)
\* the ids of the items of a feed, in the order of the feed
FeedIdSeq(feed) ==
  IF feed = <<>> THEN <<>>
  ELSE FeedIdSeq(SubSeq(feed, 1, Len(feed) - 1)) \o
       [k \in 1..Len(ItemsOf(LastPage(feed))) |-> ItemsOf(LastPage(feed))[k].id]

CompletedAlone == last.outcome = "completion" /\ ~last.overlapped

\* C1: when a run completes that no other run overlapped, a row has
\* isDeleted set exactly when its id was on no page of the feed of the run
C1_TombstoneIffAbsent ==
  CompletedAlone =>
    \A i \in 1..Len(store) :
      store[i].isDeleted <=> store[i].id \notin FeedIds(last.feed)

\* a run of two pages has completed alone; an id that was on its first page
\* only is live and an id that was not in its feed is tombstoned
C1_Witness ==
  /\ CompletedAlone
  /\ Len(last.feed) = 2
  /\ \E i \in 1..Len(store) :
       /\ store[i].id \in PageIds(last.feed[1]) \ PageIds(last.feed[2])
       /\ ~store[i].isDeleted
  /\ \E i \in 1..Len(store) :
       store[i].id \notin FeedIds(last.feed) /\ store[i].isDeleted

\* C2: no step removes a row, and a step changes a row whose id is not in
\* the feed of the run that takes it only by setting isDeleted
C2_NeverRemoved ==
  [][\A i \in 1..Len(store) :
       \E j \in 1..Len(store') :
         /\ store'[j].id = store[i].id
         /\ \/ store[i].id \in FeedIds(last'.feed)
            \/ store'[j] = store[i]
            \/ store'[j] = Tombstone(store[i])]_vars

\* a completed run has tombstoned a row and the three rows are still there
C2_Witness ==
  /\ last.outcome = "completion"
  /\ last.pruned # <<>>
  /\ Len(store) = 3
  /\ \E i \in 1..Len(store) :
       store[i].id \in Range(last.pruned) /\ store[i].isDeleted

\* C3: a run prunes at most once, a run that completed has pruned once, and
\* the prune is in the step of the last page of the feed, when the ids of
\* all items of the feed are stored and are on idArray
C3_PruneOnceAfterLastPage ==
  /\ \A r \in Runs : prunes[r] = IF pc[r] = "completion" THEN 1 ELSE 0
  /\ (last.kind = "resolve" /\ (last.pruned # <<>> \/ last.outcome = "completion"))
       => /\ ~LastPage(last.feed).more
          /\ last.idArray = FeedIdSeq(last.feed)
          /\ FeedIds(last.feed) \subseteq Ids(store)

\* a run of two pages has completed and its prune has tombstoned a row
C3_Witness ==
  /\ last.outcome = "completion"
  /\ Len(last.feed) = 2
  /\ prunes[last.run] = 1
  /\ last.pruned # <<>>

RepeatedAlone ==
  /\ CompletedAlone
  /\ last.prevFeed # None
  /\ last.prevFeed[1].feed = last.feed

\* C4: when a run completes alone, next to a run that completed alone on
\* the same feed, the store is as the first of the two left it
C4_Idempotent == RepeatedAlone => store = last.prevFeed[1].store

\* a feed of two pages with an id on both has been synced twice in a row
C4_Witness ==
  /\ RepeatedAlone
  /\ Len(last.feed) = 2
  /\ PageIds(last.feed[1]) \cap PageIds(last.feed[2]) # {}
  /\ \E i \in 1..Len(store) : store[i].isDeleted

UniqueIds ==
  \A i, j \in 1..Len(store) : store[i].id = store[j].id => i = j

\* C5: the store never holds two rows of one id, and a step adds one row
\* for each id that was not stored and none for an id that was
C5_OneRowPerId ==
  /\ []UniqueIds
  /\ [][Len(store') = Len(store) + Cardinality(Ids(store') \ Ids(store))]_vars

\* issue 1 was upserted from the first page of a run and again, with a new
\* title, from its second page
C5_Witness ==
  /\ last.kind = "resolve"
  /\ last.failAt = 0
  /\ Len(last.feed) = 2
  /\ Issue1a \in Range(ItemsOf(last.feed[1]))
  /\ Issue1b \in Range(ItemsOf(last.feed[2]))
  /\ Row(1) = TaskOf(Issue1b)

\* C6: when a run completes, every row that had isDeleted set when the run
\* upserted it has isDeleted = false
C6_UndeletedAtCompletion ==
  last.outcome = "completion" =>
    \A id \in last.undeleted : ~Row(id).isDeleted

\* C7: a run whose page fetch is rejected has not pruned, and the step of the
\* rejection leaves the store as the pages before it left it
C7_RejectNoPrune ==
  [][\A r \in Runs :
       pc'[r] = "rejected" =>
         /\ prunes'[r] = 0
         /\ pc[r] = "fetching" => store' = store]_vars

\* the fetch of the second page was rejected and the rows of the first page
\* are stored, one of them undeleted by the run
C7_Witness ==
  /\ last.kind = "reject"
  /\ Len(last.feed) = 1
  /\ PageIds(last.feed[1]) # {}
  /\ \A id \in PageIds(last.feed[1]) : id \in Ids(store) /\ ~Row(id).isDeleted
  /\ last.undeleted # {}
  /\ prunes[last.run] = 0

\* C8: the request of a run whose page fetch was rejected has been sent a
\* failure response
C8_RejectionAnswered ==
  \A r \in Runs : pc[r] = "rejected" => response[r] = "error"

\* C9: at most one run is in flight
C9_OneRunInFlight == Cardinality(InFlight) <= 1

\* C10: the step in which a store write throws leaves the store as it was
\* before the page
C10_PageAtomic ==
  [][\A r \in Runs :
       (pc[r] = "fetching" /\ pc'[r] = "threw") => store' = store]_vars

\* ------------------------------------------------------ the keyword scan
\* The scan of issue bodies, on the first sync of an empty store: the one
\* page of the feed carries an issue whose body is up to MaxLines lines of
\* BodyLines, followed by Issue3.
BodyLines ==
  {<<DUE_DATE_STRING, "2017-01-07">>, <<DUE_DATE_STRING, "2017-01-09">>,
   <<DUE_DATE_STRING, "soon">>, <<" ", DUE_DATE_STRING, "2017-01-09">>,
   <<START_DATE_STRING, "2017-01-05">>, <<START_DATE_STRING, "soon">>,
   <<LABEL_STRING, " ", "bug", " ">>, <<LABEL_STRING, "idea">>,
   <<LABEL_STRING, "none">>,
   <<PROGRESS_STRING, "0.5">>, <<PROGRESS_STRING, "1">>,
   <<PROGRESS_STRING, "lots">>, <<"text">>}

Bodies ==
  {None} \cup {Some(b) : b \in UNION {[1..n -> BodyLines] : n \in 0..MaxLines}}

ScanLabels ==
  <<[name |-> <<"bug">>, color |-> Some("fbca04")],
    [name |-> <<"idea">>, color |-> None]>>

ScanIssues == {Issue(1, "s", "open", 1, body, ScanLabels) : body \in Bodies}

\* the first page fetch of r is fulfilled with a page of a scanned issue and
\* Issue3; page 0 of a feed is this page
ScanResolve(r) ==
  /\ pc[r] = "fetching"
  /\ store = <<>>
  /\ \E issue \in ScanIssues, more \in BOOLEAN :
       \E res \in {processIssues([items |-> <<issue, Issue3>>,
                                   nextPageUrl |-> IF more THEN Some("next")
                                                   ELSE None],
                                  idArray[r], store, 0)},
          composes \in BOOLEAN :
          /\ store' = res.store
          /\ prunes' = [prunes EXCEPT ![r] = @ + res.prunes]
          /\ pc' = [pc EXCEPT ![r] =
                      IF res.outcome = "fetch" THEN "fetching" ELSE res.outcome]
          /\ response' = [response EXCEPT ![r] =
                      IF res.completion # <<>> THEN "chart" ELSE @]
          /\ sends' = [sends EXCEPT ![r] = @ + Len(res.completion)]
          /\ last' = [NoStep EXCEPT
                        !.kind = "scan", !.run = r, !.outcome = res.outcome,
                        !.feed = <<[p |-> 0, more |-> more]>>,
                        !.idArray = res.idArray, !.pruned = res.pruned,
                        !.items = <<issue, Issue3>>,
                        !.sent = [i \in 1..Len(res.completion) |->
                                    getTaskChartData(res.completion[i], composes)]]
          /\ IF res.outcome = "fetch"
             THEN /\ idArray' = [idArray EXCEPT ![r] = Some(res.idArray)]
                  /\ pages' = [pages EXCEPT ![r] = last'.feed]
                  /\ UNCHANGED <<overlapped, prevFeed, undeleted>>
             ELSE Ended(r)
  /\ UNCHANGED <<listening, lastDone, laterIds>>

ScanNext ==
  \/ \E r \in Runs : RefreshData(r)
  \/ \E r \in Runs : ScanResolve(r)

ScanInit == Init /\ store = <<>>

ScanSpec == ScanInit /\ [][ScanNext]_vars

\* the lines of the body of an issue
Lines(issue) == IF issue.body = None THEN <<>> ELSE issue.body[1]

\* the index of the last line that passes Test, 0 when none does
LastWhere(lines, Test(_)) ==
  LET S == {j \in 1..Len(lines) : Test(lines[j])}
  IN IF S = {} THEN 0 ELSE CHOOSE j \in S : \A k \in S : k <= j

\* how many lines pass Test
CountWhere(lines, Test(_)) == Cardinality({j \in 1..Len(lines) : Test(lines[j])})

IsStart(line) == StartsWith(line, START_DATE_STRING)
IsDue(line) == StartsWith(line, DUE_DATE_STRING)
IsLabel(line) == StartsWith(line, LABEL_STRING)
IsProgress(line) == StartsWith(line, PROGRESS_STRING)

\* what one line alone yields for its keyword, None when it yields nothing
DateIn(text) ==
  IF Len(text) = 1 /\ text[1] \in DOMAIN DateValue
  THEN Some(DateValue[text[1]]) ELSE None
StartValue(line) == DateIn(RemoveFirst(line, START_DATE_STRING))
DueValue(line) == DateIn(RemoveFirst(line, DUE_DATE_STRING))
LabelValue(line) ==
  IF \E i \in 1..Len(ScanLabels) :
       ScanLabels[i].name = Trim(RemoveFirst(line, LABEL_STRING))
  THEN Some(Trim(RemoveFirst(line, LABEL_STRING)))
  ELSE None
ProgressValue(line) ==
  LET text == RemoveFirst(line, PROGRESS_STRING)
  IN IF Len(text) = 1 /\ text[1] \in DOMAIN FloatValue
     THEN Some(FloatValue[text[1]]) ELSE None

GoodStart(line) == IsStart(line) /\ StartValue(line) # None
GoodDue(line) == IsDue(line) /\ DueValue(line) # None
GoodLabel(line) == IsLabel(line) /\ LabelValue(line) # None
GoodProgress(line) == IsProgress(line) /\ ProgressValue(line) # None

\* C15: the row written for a scanned issue has label and color both set
\* or both unset
C15_LabelWithColor ==
  last.kind = "scan" =>
    (Row(last.items[1].id).label = None <=> Row(last.items[1].id).color = None)

\* C16 as stated: of several lines of one keyword the last one alone
\* determines the stored field, to the default when it yields no value
C16_LastLineWins ==
  last.kind = "scan" =>
    LET issue == last.items[1]
        lines == Lines(issue)
        row == Row(issue.id)
    IN /\ CountWhere(lines, IsStart) >= 2 =>
            row.start_date =
              IF StartValue(lines[LastWhere(lines, IsStart)]) # None
              THEN StartValue(lines[LastWhere(lines, IsStart)])[1]
              ELSE issue.createdAt
       /\ CountWhere(lines, IsDue) >= 2 =>
            row.end_date = DueValue(lines[LastWhere(lines, IsDue)])
       /\ CountWhere(lines, IsLabel) >= 2 =>
            row.label = LabelValue(lines[LastWhere(lines, IsLabel)])
       /\ CountWhere(lines, IsProgress) >= 2 =>
            row.progress = ProgressValue(lines[LastWhere(lines, IsProgress)])

\* C16 amended: of several lines of one keyword, start_date, end_date and
\* label are what the last line that yields a value yields (a date that
\* parses, a name among the labels of the issue), and the default when no
\* line yields one; progress is what the last progress line yields, unset
\* when that line cannot be sanitized
C16_LastYieldingWins ==
  last.kind = "scan" =>
    LET issue == last.items[1]
        lines == Lines(issue)
        row == Row(issue.id)
    IN /\ CountWhere(lines, IsStart) >= 2 =>
            row.start_date =
              IF LastWhere(lines, GoodStart) # 0
              THEN StartValue(lines[LastWhere(lines, GoodStart)])[1]
              ELSE issue.createdAt
       /\ CountWhere(lines, IsDue) >= 2 =>
            row.end_date =
              IF LastWhere(lines, GoodDue) # 0
              THEN DueValue(lines[LastWhere(lines, GoodDue)])
              ELSE None
       /\ CountWhere(lines, IsLabel) >= 2 =>
            row.label =
              IF LastWhere(lines, GoodLabel) # 0
              THEN LabelValue(lines[LastWhere(lines, GoodLabel)])
              ELSE None
       /\ CountWhere(lines, IsProgress) >= 2 =>
            row.progress = ProgressValue(lines[LastWhere(lines, IsProgress)])

\* a body of two due lines was scanned, the first with a date and the
\* second without one, and the row has the date of the first
C16_Witness ==
  /\ last.kind = "scan"
  /\ Lines(last.items[1]) = <<<<DUE_DATE_STRING, "2017-01-07">>,
                              <<DUE_DATE_STRING, "soon">>>>
  /\ Row(1).end_date = Some(7)

\* C18: a page whose first issue has lines that yield no value is processed
\* to its end: the run prunes and completes, or goes on to fetch the next
\* page; both issues are on idArray and stored, the second as its task; a
\* field of the first issue none of whose lines yields a value is at its
\* default
C18_MalformedLineSkipped ==
  last.kind = "scan" =>
    LET issue == last.items[1]
        lines == Lines(issue)
        row == Row(issue.id)
    IN /\ last.outcome = IF LastPage(last.feed).more THEN "fetch" ELSE "completion"
       /\ prunes[last.run] = IF LastPage(last.feed).more THEN 0 ELSE 1
       /\ last.idArray = <<issue.id, Issue3.id>>
       /\ Ids(store) = {issue.id, Issue3.id}
       /\ Row(Issue3.id) = TaskOf(Issue3)
       /\ ~row.isDeleted
       /\ LastWhere(lines, GoodStart) = 0 => row.start_date = issue.createdAt
       /\ LastWhere(lines, GoodDue) = 0 => row.end_date = None
       /\ LastWhere(lines, GoodLabel) = 0 => row.label = None /\ row.color = None
       /\ LastWhere(lines, GoodProgress) = 0 => row.progress = None

\* an issue with a due line without a date and a label line of a name that
\* is not a label of the issue was scanned and the run completed
C18_Witness ==
  /\ last.kind = "scan"
  /\ Lines(last.items[1]) = <<<<DUE_DATE_STRING, "soon">>, <<LABEL_STRING, "none">>>>
  /\ last.outcome = "completion"
  /\ Row(1).end_date = None
  /\ Row(1).label = None
  /\ 3 \in Ids(store)

Visible(t) == ~t.isDeleted /\ t.state = "open" /\ t.end_date # None

\* C12: the chart data has one row for each stored row that is not flagged,
\* is open and has an end_date, formatted from that row, and no other row
C12_ChartFilter ==
  last.kind = "data" =>
    LET data == last.sent[1]
    IN /\ {data[i].id : i \in 1..Len(data)}
            = {store[i].id : i \in {j \in 1..Len(store) : Visible(store[j])}}
       /\ Len(data) = Cardinality({j \in 1..Len(store) : Visible(store[j])})
       /\ \A i \in 1..Len(data) : data[i] = formattedTask(Row(data[i].id))

\* the chart data was sent for a store of which row 1 is closed or flagged
\* or without end_date while rows 2 and 3 are in the chart
C12_Witness ==
  /\ last.kind = "data"
  /\ Len(last.sent[1]) = 2
  /\ ~Visible(store[1])
  /\ store[1].state = "closed" \/ store[1].isDeleted \/ store[1].end_date = None

C14_ReadOnly ==
  [][last'.kind = "data" =>
       /\ store' = store
       /\ pc' = pc
       /\ idArray' = idArray
       /\ prunes' = prunes]_vars

\* /data was answered while a run that has upserted a page waits for its
\* next page
C14_Witness ==
  /\ last.kind = "data"
  /\ \E r \in Runs : pc[r] = "fetching" /\ Len(pages[r]) = 1
  /\ store # <<>>

\* C17: the step of /getIssueURL for an id that is not stored answers with
\* an error, leaves the store as it is and the process serving
C17_UnknownIdAnswered ==
  [][(last'.kind = "url" /\ (parseInt(last'.query[1]) = None
                              \/ parseInt(last'.query[1])[1] \notin Ids(store)))
       => /\ last'.outcome = "error"
          /\ last'.sent = <<>>
          /\ store' = store
          /\ listening']_vars

\* /getIssueURL was asked for id 4, which is not stored, and has answered
\* with an error
C17_Witness ==
  /\ last.kind = "url"
  /\ last.query = Some("4")
  /\ 4 \notin Ids(store)
  /\ store # <<>>
  /\ last.outcome = "error"
  /\ listening

\* C19: a step in which a write throws while another run is in flight
\* leaves no page upserted in part before that run
C19_NoHalfPageObserved ==
  [][\A r \in Runs :
       (pc[r] = "fetching" /\ pc'[r] = "threw"
          /\ \E q \in Runs : q # r /\ pc'[q] = "fetching")
       => store' = store]_vars

\* C20: when a run completes with no run in flight, after a run that was
\* started later and whose feed had the ids of this run's feed and more has
\* completed, no id of the feed of the later run is flagged
C20_LaterFeedLive ==
  (/\ last.kind = "resolve"
   /\ last.outcome = "completion"
   /\ InFlight = {}
   /\ FeedIds(last.feed) \subseteq last.laterIds
   /\ FeedIds(last.feed) # last.laterIds)
  => \A id \in last.laterIds : ~Row(id).isDeleted

TypeOK ==
  /\ pc \in [Runs -> {"idle", "fetching", "completion", "rejected", "threw"}]
  /\ \A r \in Runs : Len(pages[r]) <= MaxPages

====
